---- MODULE Spec2Model ----
(***************************************************************************)
(* Model of atom/kite/lib/ready.js: the Ready object, which queries the    *)
(* lifecycle state of the Kite daemon (StateController.handleState),       *)
(* shows one notification per non-ready state, and chains the remediation  *)
(* requests (install, launch, authenticate, whitelist) back into ensure(). *)
(*                                                                         *)
(* The state is what is alive in the editor: the pending handleState       *)
(* promises, the open notifications, the pending remediation promises and  *)
(* timers, and the active file.  Every promise callback, timer callback    *)
(* and button handler of the file is one action.  The handlers are         *)
(* operators over a "world" record w, so that a handler that calls another *)
(* one (install success -> launch) is the composition of the two operators *)
(* within one action.  tracked holds the metrics.track calls of the last   *)
(* step, made what the step created, and last names the callback that ran  *)
(* and what it was given.                                                  *)
(***************************************************************************)
EXTENDS Integers, Sequences, FiniteSets, Bags, TLC

\* ---------------------------------------------------------------- bounds
\* ensure() calls of one behaviour (from the editor or chained)
MaxEnsure == 2
\* remediation requests of one behaviour
MaxRequests == 3
\* requests the oracle rejects in one behaviour of the retry loop
MaxFailures == 1
\* milliseconds by which one Tick advances the pending timers
TickMs == 2500

\* ------------------------------------------------------------- constants
\* delay of the setTimeout in launch()
SettleDelay == 5000

\* a file path is the sequence of its segments; <<>> stands for null
Null == <<>>

\* the files the editor can have in its active pane
Paths == { <<"a", "x.py">>, <<"b", "y.py">> }

\* the rejection payloads of the StateController promises
Errs == { [code |-> "E1"] }

\* no payload
NoErr == [code |-> ""]

\* JSON.stringify of a payload {code: c}
stringify(err) == "{\"code\":\"" \o err.code \o "\"}"

\* the attributes of a metrics.track call: {dir: dir}, an error, or none
DirAttr(dir) == [dir |-> dir, code |-> ""]

ErrAttr(err) == [dir |-> <<>>, code |-> err.code]

NoAttr == [dir |-> <<>>, code |-> ""]

\* StateController.STATES
STATES == { "UNSUPPORTED", "UNINSTALLED", "INSTALLED", "RUNNING",
            "REACHABLE", "AUTHENTICATED", "WHITELISTED" }

\* the literals of authenticate()
email == "test@kite.com"

password == "123123"

\* the credentials of a request other than authenticateUser
NoCred == [email |-> "", password |-> ""]

\* path.dirname of an absolute path of at least two segments
dirname(p) == SubSeq(p, 1, Len(p) - 1)

VARIABLES
  activePath,     \* editor.buffer.file.path of the active pane item, or Null
  queries,        \* the pending handleState promises, one per ensure() call
  notifications,  \* the open notifications of atom.notifications
  requests,       \* the pending remediation promises and launch() timers
  nEnsure,        \* number of ensure() calls so far
  nRequest,       \* number of remediation requests so far
  tracked,        \* the metrics.track calls of the last step, in order
  made,           \* what the last step created: notifications, requests, calls
  last,           \* the callback that ran in the last step, and its inputs
  unspent,        \* UNINSTALLED answers + install failures - install requests
  oracle          \* what the StateController reports, where that is assumed

vars == <<activePath, queries, notifications, requests, nEnsure, nRequest,
          tracked, made, last, unspent, oracle>>

\* a notification is named after the ensure() call or the request whose
\* callback created it
ByEnsure(i) == <<"ensure", i>>

ByRequest(r) == <<"request", r>>

NoId == <<"", 0>>

NoQuery == [id |-> 0, curpath |-> Null, by |-> 0]

NoRequest == [id |-> 0, kind |-> "", dir |-> Null, cred |-> NoCred,
              status |-> "", elapsed |-> 0, via |-> NoId, after |-> 0,
              origin |-> Null]

NoNotification == [id |-> NoId, severity |-> "", kind |-> "", title |-> "",
                   arg |-> Null, description |-> "", button |-> "",
                   dir |-> Null, origin |-> Null]

\* Ready.currentPath
currentPath == activePath

\* the world a handler starts in: nothing tracked yet
W == [q |-> queries, n |-> notifications, r |-> requests,
      ne |-> nEnsure, nr |-> nRequest, t |-> <<>>]

\* earned is 1 when the step is an UNINSTALLED answer or an install failure
CommitEarning(w, earned) ==
  /\ queries' = w.q
  /\ notifications' = w.n
  /\ requests' = w.r
  /\ nEnsure' = w.ne
  /\ nRequest' = w.nr
  /\ tracked' = w.t
  /\ made' = [n |-> w.n \ notifications, r |-> w.r \ requests,
               q |-> w.q \ queries]
  /\ unspent' = unspent + earned
                 - Cardinality({ x \in w.r \ requests : x.kind = "install" })

Commit(w) == CommitEarning(w, 0)

\* metrics.track(name, attr)
track(w, name, attr) ==
  [w EXCEPT !.t = Append(@, [name |-> name, attr |-> attr])]

\* addNotification that shows nothing when the same notification is open
addNotificationOnce(w, id, severity, kind, title, arg, description, button, dir, origin) ==
  IF \E y \in w.n : y.kind = kind /\ y.arg = arg
    THEN w
    ELSE [w EXCEPT !.n = @ \cup {[id |-> id, severity |-> severity,
                                  kind |-> kind, title |-> title, arg |-> arg,
                                  description |-> description,
                                  button |-> button, dir |-> dir,
                                  origin |-> origin]}]

\* atom.notifications.addError / addWarning: a new open notification.
\* origin is bookkeeping: the directory of the first whitelist() call of
\* the retry chain the notification belongs to
addNotification(w, id, severity, kind, title, arg, description, button, dir, origin) ==
  [w EXCEPT !.n = @ \cup {[id |-> id, severity |-> severity, kind |-> kind,
                           title |-> title, arg |-> arg,
                           description |-> description,
                           button |-> button, dir |-> dir,
                           origin |-> origin]}]

addError(w, id, kind, title, arg, description, button, dir, origin) ==
  addNotification(w, id, "error", kind, title, arg, description, button, dir, origin)

addWarning(w, id, kind, title, arg, description, button, dir, origin) ==
  addNotification(w, id, "warning", kind, title, arg, description, button, dir, origin)

\* the name tracked by the onDidDismiss callback of each notification
DismissedEvent(kind) ==
  CASE kind = "warnNotSupported" -> "not-supported warning dismissed"
    [] kind = "warnNotInstalled" -> "not-installed warning dismissed"
    [] kind = "installError" -> "download-and-install error dismissed"
    [] kind = "warnNotRunning" -> "not-running warning dismissed"
    [] kind = "launchError" -> "launch error dismissed"
    [] kind = "warnNotReachable" -> "not-reachable warning dismissed"
    [] kind = "warnNotAuthenticated" -> "not-authenticated warning dismissed"
    [] kind = "authError" -> "authentication error dismissed"
    [] kind = "warnNotWhitelisted" -> "not-whitelisted warning dismissed"
    [] kind = "whitelistError" -> "whitelisting error dismissed"

\* the attributes of that event: only the not-whitelisted warning passes {dir}
DismissedAttr(x) ==
  IF x.kind = "warnNotWhitelisted" THEN DirAttr(x.dir) ELSE NoAttr

\* notification.dismiss(): closes the notification and runs its onDidDismiss
dismiss(w, x) ==
  IF x \in w.n
    THEN track([w EXCEPT !.n = @ \ {x}], DismissedEvent(x.kind), DismissedAttr(x))
    ELSE w

\* a new pending promise of the StateController: via is the notification
\* whose button made the call, after the request whose success callback
\* made it
addRequest(w, kind, dir, cred, via, after, origin) ==
  [w EXCEPT !.nr = @ + 1,
            !.r = @ \cup {[id |-> w.nr + 1, kind |-> kind, dir |-> dir,
                           cred |-> cred, status |-> "pending",
                           elapsed |-> 0, via |-> via, after |-> after,
                           origin |-> origin]}]

\* Ready.ensure up to the handleState call: by is the request whose success
\* callback made the call, 0 for a call from the editor
ensure(w, by) ==
  [w EXCEPT !.ne = @ + 1,
            !.q = @ \cup {[id |-> w.ne + 1, curpath |-> currentPath, by |-> by]}]

\* ------------------------------------------------- the warn* functions
\* each is called by the handleState callback of ensure() call i

warnNotSupported(w, i) ==
  addError(track(w, "not-supported warning shown", NoAttr), ByEnsure(i),
           "warnNotSupported",
           "The Kite autocomplete daemon is not supported on this platform",
           Null, "Kite is currently only supported on macOS.",
           "", Null, Null)

warnNotInstalled(w, i) ==
  addWarning(track(w, "not-installed warning shown", NoAttr), ByEnsure(i),
             "warnNotInstalled",
             "The Kite autocomplete daemon is not installed", Null,
             "In order to provide completions the Kite daemon needs to be installed.",
             "Install Kite", Null, Null)

warnNotRunning(w, i) ==
  addWarning(track(w, "not-running warning shown", NoAttr), ByEnsure(i),
             "warnNotRunning",
             "The Kite autocomplete daemon is not running", Null,
             "In order to provide completions the Kite daemon needs to be running.",
             "Start Kite", Null, Null)

warnNotReachable(w, i) ==
  addError(track(w, "not-reachable warning shown", NoAttr), ByEnsure(i),
           "warnNotReachable",
           "The Kite autocomplete daemon is running but not reachable",
           Null, "Try killing Kite from Activity Monitor.",
           "", Null, Null)

warnNotAuthenticated(w, i) ==
  addWarning(track(w, "not-authenticated warning shown", NoAttr), ByEnsure(i),
             "warnNotAuthenticated",
             "You need to log in to the Kite autocomplete daemon", Null,
             "In order to provide completions the Kite daemon needs to be authenticated (so that it can access the index of your code stored on the cloud).",
             "Login", Null, Null)

\* warnNotWhitelisted that takes the directory of the file focused now
warnNotWhitelistedCurrent(w, i, filepath) ==
  LET dir == dirname(currentPath)
  IN addWarning(track(w, "not-whitelisted warning shown", DirAttr(dir)),
                ByEnsure(i), "warnNotWhitelisted",
                "Kite completions are not enabled for ", filepath,
                "Kite only processes files in enabled directories. If you enable Kite then files in this directory will be synced to the Kite backend, where they will be analyzed and indexed.",
                "Enable Kite for ", dir, dir)

\* the title is "Kite completions are not enabled for "+filepath and the
\* button "Enable Kite for "+dir: arg and dir hold the two suffixes
warnNotWhitelisted(w, i, filepath) ==
  LET dir == dirname(filepath)
  IN addWarning(track(w, "not-whitelisted warning shown", DirAttr(dir)),
                ByEnsure(i), "warnNotWhitelisted",
                "Kite completions are not enabled for ", filepath,
                "Kite only processes files in enabled directories. If you enable Kite then files in this directory will be synced to the Kite backend, where they will be analyzed and indexed.",
                "Enable Kite for ", dir, dir)

\* ----------------------------------- the operations, up to their promise

install(w, via, after) ==
  addRequest(track(w, "download-and-install started", NoAttr),
             "install", Null, NoCred, via, after, Null)

launch(w, via, after) ==
  addRequest(track(w, "launch started", NoAttr),
             "launch", Null, NoCred, via, after, Null)

authenticate(w, via, after) ==
  addRequest(track(w, "authentication started", NoAttr),
             "authenticate", Null,
             [email |-> email, password |-> password], via, after, Null)

whitelist(w, dirpath, via, after, origin) ==
  addRequest(track(w, "whitelisting started", DirAttr(dirpath)),
             "whitelist", dirpath, NoCred, via, after, origin)

\* ------------------------------------------------ the promise callbacks

\* dispatch with the break of the UNINSTALLED case missing
dispatchFallthrough(w, i, state, curpath) ==
  CASE state = "UNSUPPORTED" -> warnNotSupported(w, i)
    [] state = "UNINSTALLED" -> warnNotRunning(warnNotInstalled(w, i), i)
    [] state = "INSTALLED" -> warnNotRunning(w, i)
    [] state = "RUNNING" -> warnNotReachable(w, i)
    [] state = "REACHABLE" -> warnNotAuthenticated(w, i)
    [] state = "AUTHENTICATED" ->
         IF curpath # Null THEN warnNotWhitelisted(w, i, curpath) ELSE w
    [] state = "WHITELISTED" -> track(w, "kite is ready", NoAttr)
    [] OTHER -> w

\* dispatch with the break of the AUTHENTICATED case missing
dispatchReadyAfterWarning(w, i, state, curpath) ==
  CASE state = "UNSUPPORTED" -> warnNotSupported(w, i)
    [] state = "UNINSTALLED" -> warnNotInstalled(w, i)
    [] state = "INSTALLED" -> warnNotRunning(w, i)
    [] state = "RUNNING" -> warnNotReachable(w, i)
    [] state = "REACHABLE" -> warnNotAuthenticated(w, i)
    [] state = "AUTHENTICATED" ->
         track(IF curpath # Null THEN warnNotWhitelisted(w, i, curpath) ELSE w,
               "kite is ready", NoAttr)
    [] state = "WHITELISTED" -> track(w, "kite is ready", NoAttr)
    [] OTHER -> w

\* dispatch with the WHITELISTED case taken for the not-whitelisted one
dispatchReadyWarns(w, i, state, curpath) ==
  CASE state = "UNSUPPORTED" -> warnNotSupported(w, i)
    [] state = "UNINSTALLED" -> warnNotInstalled(w, i)
    [] state = "INSTALLED" -> warnNotRunning(w, i)
    [] state = "RUNNING" -> warnNotReachable(w, i)
    [] state = "REACHABLE" -> warnNotAuthenticated(w, i)
    [] state = "AUTHENTICATED" -> track(w, "kite is ready", NoAttr)
    [] state = "WHITELISTED" ->
         IF curpath # Null THEN warnNotWhitelisted(w, i, curpath) ELSE w
    [] OTHER -> w

\* the switch of the handleState callback of ensure() call i
dispatch(w, i, state, curpath) ==
  CASE state = "UNSUPPORTED" -> warnNotSupported(w, i)
    [] state = "UNINSTALLED" -> warnNotInstalled(w, i)
    [] state = "INSTALLED" -> warnNotRunning(w, i)
    [] state = "RUNNING" -> warnNotReachable(w, i)
    [] state = "REACHABLE" -> warnNotAuthenticated(w, i)
    [] state = "AUTHENTICATED" ->
         IF curpath # Null THEN warnNotWhitelisted(w, i, curpath) ELSE w
    [] state = "WHITELISTED" -> track(w, "kite is ready", NoAttr)
    [] OTHER -> w

\* handleStateFailed that asks again
handleStateFailedRetries(w, i, err) ==
  ensure(track(w, "handleState failed", ErrAttr(err)), 0)

\* the rejection callback of handleState
handleStateFailed(w, i, err) == track(w, "handleState failed", ErrAttr(err))

\* installSucceeded that checks the state before it launches
installSucceededChecks(w, x) ==
  ensure(track(w, "download-and-install succeeded", NoAttr), x.id)

\* installKiteRelease resolved
installSucceeded(w, x) ==
  launch(track(w, "download-and-install succeeded", NoAttr), NoId, x.id)

\* installKiteRelease rejected
installFailed(w, x, err) ==
  addError(track(w, "download-and-install failed", ErrAttr(err)),
           ByRequest(x.id), "installError", "Unable to install Kite", Null,
           stringify(err), "Retry", Null, Null)

\* launchSucceeded without the setTimeout
launchSucceededAtOnce(w, x) ==
  ensure(track(w, "launch succeeded", NoAttr), x.id)

\* runKite resolved: setTimeout(..., 5000)
launchSucceeded(w, x) ==
  [w EXCEPT !.r = @ \cup {[x EXCEPT !.status = "settling", !.elapsed = 0]}]

\* the timer x may run its callback
timerDue(x) == x.status = "settling" /\ x.elapsed >= SettleDelay

\* the timer callback without the ensure() call
launchSettledForgets(w, x) == track(w, "launch succeeded", NoAttr)

\* the callback of the timer
launchSettled(w, x) == ensure(track(w, "launch succeeded", NoAttr), x.id)

\* launchFailed that starts the daemon again by itself
launchFailedRetries(w, x, err) ==
  launch(addError(track(w, "launch failed", ErrAttr(err)),
                  ByRequest(x.id), "launchError",
                  "Unable to start Kite autocomplete daemon", Null,
                  stringify(err), "Retry", Null, Null), NoId, 0)

\* runKite rejected
launchFailed(w, x, err) ==
  addError(track(w, "launch failed", ErrAttr(err)),
           ByRequest(x.id), "launchError",
           "Unable to start Kite autocomplete daemon", Null,
           stringify(err), "Retry", Null, Null)

\* authenticateSucceeded that waits like launch()
authenticateSucceededWaits(w, x) ==
  [track(w, "authentication succeeded", NoAttr)
     EXCEPT !.r = @ \cup {[x EXCEPT !.status = "settling", !.elapsed = 0]}]

\* authenticateUser resolved
authenticateSucceeded(w, x) ==
  ensure(track(w, "authentication succeeded", NoAttr), x.id)

\* authenticateUser rejected
authenticateFailed(w, x, err) ==
  addError(track(w, "authentication failed", ErrAttr(err)),
           ByRequest(x.id), "authError", "Unable to login", Null,
           stringify(err), "Retry", Null, Null)

\* whitelistSucceeded that checks the enabled directory instead of the
\* file focused now
whitelistSucceededSameDir(w, x) ==
  LET v == track(w, "whitelisting succeeded", DirAttr(x.dir))
  IN [v EXCEPT !.ne = @ + 1,
               !.q = @ \cup {[id |-> v.ne + 1, curpath |-> x.dir, by |-> x.id]}]

\* whitelistSucceeded without the ensure() call
whitelistSucceededStops(w, x) ==
  track(w, "whitelisting succeeded", DirAttr(x.dir))

\* whitelistPath resolved
whitelistSucceeded(w, x) ==
  ensure(track(w, "whitelisting succeeded", DirAttr(x.dir)), x.id)

\* whitelistPath rejected: the title is "Unable to enable Kite for "+dirpath
whitelistFailed(w, x, err) ==
  addError(track(w, "whitelisting failed", DirAttr(x.dir)),
           ByRequest(x.id), "whitelistError", "Unable to enable Kite for ",
           x.dir, stringify(err), "Retry", x.dir, x.origin)

\* ---------------------------------------------------- the button handlers
\* each is the onDidClick of the button of the open notification x

\* clickInstall that leaves the warning open, as clickStart does
clickInstallStays(w, x) ==
  install(track(w, "install button clicked (via not-installed warning)",
                NoAttr), x.id, 0)

clickInstall(w, x) ==
  install(dismiss(track(w, "install button clicked (via not-installed warning)",
                        NoAttr), x), x.id, 0)

clickRetryInstall(w, x) ==
  install(dismiss(track(w, "retry button clicked (via download-and-install error)",
                        NoAttr), x), x.id, 0)

\* clickStart that closes the warning as clickInstall does
clickStartDismisses(w, x) ==
  launch(dismiss(track(w, "start button clicked (via not-running warning)",
                       NoAttr), x), x.id, 0)

clickStart(w, x) ==
  launch(track(w, "start button clicked (via not-running warning)", NoAttr),
         x.id, 0)

clickRetryLaunch(w, x) ==
  launch(track(w, "retry button clicked (via launch error)", NoAttr), x.id, 0)

clickLogin(w, x) ==
  authenticate(track(w, "login button clicked (via not-authenticated warning)",
                     NoAttr), x.id, 0)

clickRetryAuthenticate(w, x) ==
  authenticate(track(w, "retry button clicked (via authentication error)",
                     NoAttr), x.id, 0)

clickEnable(w, x) ==
  whitelist(track(w, "enable button clicked (via not-whitelisted warning)",
                  DirAttr(x.dir)), x.dir, x.id, 0, x.origin)

\* clickRetryWhitelist that takes the directory of the active file
clickRetryWhitelistCurrent(w, x) ==
  whitelist(track(w, "retry clicked (via whitelisting-failed error)",
                  DirAttr(x.dir)), dirname(currentPath), x.id, 0, x.origin)

clickRetryWhitelist(w, x) ==
  whitelist(track(w, "retry clicked (via whitelisting-failed error)",
                  DirAttr(x.dir)), x.dir, x.id, 0, x.origin)

\* the handler of the button of a notification of each kind
onDidClick(w, x) ==
  CASE x.kind = "warnNotInstalled" -> clickInstall(w, x)
    [] x.kind = "installError" -> clickRetryInstall(w, x)
    [] x.kind = "warnNotRunning" -> clickStart(w, x)
    [] x.kind = "launchError" -> clickRetryLaunch(w, x)
    [] x.kind = "warnNotAuthenticated" -> clickLogin(w, x)
    [] x.kind = "authError" -> clickRetryAuthenticate(w, x)
    [] x.kind = "warnNotWhitelisted" -> clickEnable(w, x)
    [] x.kind = "whitelistError" -> clickRetryWhitelist(w, x)

\* ------------------------------------------------------------ the actions

Ran(op, query, state, err, request, notification) ==
  [op |-> op, query |-> query, state |-> state, err |-> err,
   request |-> request, notification |-> notification]

\* the oracle of which nothing is assumed: it may answer anything
AnyOracle == [stage |-> "", enabled |-> {}, failures |-> 0]

\* a step that created nothing
Nothing == [n |-> {}, r |-> {}, q |-> {}]

Init ==
  /\ activePath \in Paths \cup {Null}
  /\ queries = {}
  /\ notifications = {}
  /\ requests = {}
  /\ nEnsure = 0
  /\ nRequest = 0
  /\ tracked = <<>>
  /\ made = Nothing
  /\ last = Ran("", NoQuery, "", NoErr, NoRequest, NoNotification)
  /\ unspent = 0
  /\ oracle = AnyOracle

Pending(kind) == { x \in requests : x.kind = kind /\ x.status = "pending" }

\* the world once the promise x has settled
Settled(w, x) == [w EXCEPT !.r = @ \ {x}]

\* the user focuses another file, or an item that has no file
ChangeActivePath ==
  /\ \E p \in Paths \cup {Null} : p # activePath /\ activePath' = p
  /\ tracked' = <<>>
  /\ made' = Nothing
  /\ last' = Ran("focus", NoQuery, "", NoErr, NoRequest, NoNotification)
  /\ UNCHANGED <<queries, notifications, requests, nEnsure, nRequest,
                 unspent, oracle>>

\* the package calls Ready.ensure()
Ensure ==
  /\ nEnsure < MaxEnsure
  /\ Commit(ensure(W, 0))
  /\ last' = Ran("ensure", NoQuery, "", NoErr, NoRequest, NoNotification)
  /\ UNCHANGED <<activePath, oracle>>

\* handleState(curpath) resolves with a state
HandleStateResolve ==
  /\ \E x \in queries, state \in STATES :
       /\ CommitEarning(dispatch([W EXCEPT !.q = @ \ {x}], x.id, state, x.curpath),
                        IF state = "UNINSTALLED" THEN 1 ELSE 0)
       /\ last' = Ran("handleState.then", x, state, NoErr, NoRequest, NoNotification)
  /\ UNCHANGED <<activePath, oracle>>

\* handleState(curpath) rejects
HandleStateReject ==
  /\ \E x \in queries, err \in Errs :
       /\ Commit(handleStateFailed([W EXCEPT !.q = @ \ {x}], x.id, err))
       /\ last' = Ran("handleState.catch", x, "", err, NoRequest, NoNotification)
  /\ UNCHANGED <<activePath, oracle>>

\* the user clicks the button of an open notification
Click ==
  /\ nRequest < MaxRequests
  /\ \E x \in notifications :
       /\ x.button # ""
       /\ Commit(onDidClick(W, x))
       /\ last' = Ran("click", NoQuery, "", NoErr, NoRequest, x)
  /\ UNCHANGED <<activePath, oracle>>

\* the user closes an open notification
Dismiss ==
  /\ \E x \in notifications :
       /\ Commit(dismiss(W, x))
       /\ last' = Ran("dismiss", NoQuery, "", NoErr, NoRequest, x)
  /\ UNCHANGED <<activePath, oracle>>

InstallResolve ==
  /\ nRequest < MaxRequests
  /\ \E x \in Pending("install") :
       /\ Commit(installSucceeded(Settled(W, x), x))
       /\ last' = Ran("installKiteRelease.then", NoQuery, "", NoErr, x, NoNotification)
  /\ UNCHANGED <<activePath, oracle>>

InstallReject ==
  /\ \E x \in Pending("install"), err \in Errs :
       /\ CommitEarning(installFailed(Settled(W, x), x, err), 1)
       /\ last' = Ran("installKiteRelease.catch", NoQuery, "", err, x, NoNotification)
  /\ UNCHANGED <<activePath, oracle>>

LaunchResolve ==
  /\ \E x \in Pending("launch") :
       /\ Commit(launchSucceeded(Settled(W, x), x))
       /\ last' = Ran("runKite.then", NoQuery, "", NoErr, x, NoNotification)
  /\ UNCHANGED <<activePath, oracle>>

LaunchReject ==
  /\ \E x \in Pending("launch"), err \in Errs :
       /\ Commit(launchFailed(Settled(W, x), x, err))
       /\ last' = Ran("runKite.catch", NoQuery, "", err, x, NoNotification)
  /\ UNCHANGED <<activePath, oracle>>

\* time passes: every pending timer is TickMs older
Tick ==
  /\ \E x \in requests : x.status = "settling" /\ x.elapsed < SettleDelay
  /\ requests' = { IF x.status = "settling"
                     THEN [x EXCEPT !.elapsed =
                             IF @ + TickMs > SettleDelay THEN SettleDelay
                                                         ELSE @ + TickMs]
                     ELSE x : x \in requests }
  /\ tracked' = <<>>
  /\ made' = Nothing
  /\ last' = Ran("tick", NoQuery, "", NoErr, NoRequest, NoNotification)
  /\ UNCHANGED <<activePath, queries, notifications, nEnsure, nRequest,
                 unspent, oracle>>

\* the timer of launch() runs its callback
TimerFire ==
  /\ nEnsure < MaxEnsure
  /\ \E x \in requests :
       /\ timerDue(x)
       /\ Commit(launchSettled(Settled(W, x), x))
       /\ last' = Ran("setTimeout", NoQuery, "", NoErr, x, NoNotification)
  /\ UNCHANGED <<activePath, oracle>>

AuthenticateResolve ==
  /\ nEnsure < MaxEnsure
  /\ \E x \in Pending("authenticate") :
       /\ Commit(authenticateSucceeded(Settled(W, x), x))
       /\ last' = Ran("authenticateUser.then", NoQuery, "", NoErr, x, NoNotification)
  /\ UNCHANGED <<activePath, oracle>>

AuthenticateReject ==
  /\ \E x \in Pending("authenticate"), err \in Errs :
       /\ Commit(authenticateFailed(Settled(W, x), x, err))
       /\ last' = Ran("authenticateUser.catch", NoQuery, "", err, x, NoNotification)
  /\ UNCHANGED <<activePath, oracle>>

WhitelistResolve ==
  /\ nEnsure < MaxEnsure
  /\ \E x \in Pending("whitelist") :
       /\ Commit(whitelistSucceeded(Settled(W, x), x))
       /\ last' = Ran("whitelistPath.then", NoQuery, "", NoErr, x, NoNotification)
  /\ UNCHANGED <<activePath, oracle>>

WhitelistReject ==
  /\ \E x \in Pending("whitelist"), err \in Errs :
       /\ Commit(whitelistFailed(Settled(W, x), x, err))
       /\ last' = Ran("whitelistPath.catch", NoQuery, "", err, x, NoNotification)
  /\ UNCHANGED <<activePath, oracle>>

Next ==
  \/ ChangeActivePath
  \/ Ensure
  \/ HandleStateResolve
  \/ HandleStateReject
  \/ Click
  \/ Dismiss
  \/ InstallResolve
  \/ InstallReject
  \/ LaunchResolve
  \/ LaunchReject
  \/ Tick
  \/ TimerFire
  \/ AuthenticateResolve
  \/ AuthenticateReject
  \/ WhitelistResolve
  \/ WhitelistReject

Spec == Init /\ [][Next]_vars

\* ------------------------------------------------------- the retry loop
\* One ensure() call and what follows from it, with an oracle that reports
\* the stage the daemon is in: a successful request moves the daemon to the
\* next stage, a file stays focused, every query is answered, the oracle
\* rejects at most MaxFailures requests, and the user clicks a button once
\* and closes its notification.

\* the stages a button of the controller can remedy
StartStages == {"UNINSTALLED", "INSTALLED", "REACHABLE", "AUTHENTICATED"}

\* what handleState(curpath) resolves with
Report(curpath) ==
  IF /\ oracle.stage = "AUTHENTICATED"
     /\ curpath # Null
     /\ dirname(curpath) \in oracle.enabled
    THEN "WHITELISTED"
    ELSE oracle.stage

\* the oracle once the daemon has left stage from for stage to
Advanced(from, to) ==
  IF oracle.stage = from THEN [oracle EXCEPT !.stage = to] ELSE oracle

\* the oracle may reject one more request
MayReject == oracle.failures < MaxFailures

Rejected == [oracle EXCEPT !.failures = @ + 1]

LoopInit ==
  /\ activePath \in Paths
  /\ queries = {}
  /\ notifications = {}
  /\ requests = {}
  /\ nEnsure = 0
  /\ nRequest = 0
  /\ tracked = <<>>
  /\ made = Nothing
  /\ last = Ran("", NoQuery, "", NoErr, NoRequest, NoNotification)
  /\ unspent = 0
  /\ oracle \in { [stage |-> s, enabled |-> {}, failures |-> 0] :
                    s \in STATES \ {"WHITELISTED"} }

\* the user focuses another file
LoopFocus ==
  /\ \E p \in Paths : p # activePath /\ activePath' = p
  /\ tracked' = <<>>
  /\ made' = Nothing
  /\ last' = Ran("focus", NoQuery, "", NoErr, NoRequest, NoNotification)
  /\ UNCHANGED <<queries, notifications, requests, nEnsure, nRequest,
                 unspent, oracle>>

\* the one ensure() call of the package
LoopEnsure ==
  /\ nEnsure = 0
  /\ Commit(ensure(W, 0))
  /\ last' = Ran("ensure", NoQuery, "", NoErr, NoRequest, NoNotification)
  /\ UNCHANGED <<activePath, oracle>>

\* handleState(curpath) resolves with the state of the daemon
LoopAnswer ==
  /\ \E x \in queries :
       LET state == Report(x.curpath)
       IN /\ CommitEarning(dispatch([W EXCEPT !.q = @ \ {x}], x.id, state,
                                    x.curpath),
                           IF state = "UNINSTALLED" THEN 1 ELSE 0)
          /\ last' = Ran("handleState.then", x, state, NoErr, NoRequest,
                         NoNotification)
  /\ UNCHANGED <<activePath, oracle>>

\* the user clicks the button of an open notification and closes it
LoopClick ==
  /\ \E x \in notifications :
       /\ x.button # ""
       /\ Commit(dismiss(onDidClick(W, x), x))
       /\ last' = Ran("click", NoQuery, "", NoErr, NoRequest, x)
  /\ UNCHANGED <<activePath, oracle>>

LoopInstallResolve ==
  /\ \E x \in Pending("install") :
       /\ Commit(installSucceeded(Settled(W, x), x))
       /\ last' = Ran("installKiteRelease.then", NoQuery, "", NoErr, x, NoNotification)
  /\ oracle' = Advanced("UNINSTALLED", "INSTALLED")
  /\ UNCHANGED activePath

LoopInstallReject ==
  /\ MayReject
  /\ \E x \in Pending("install"), err \in Errs :
       /\ CommitEarning(installFailed(Settled(W, x), x, err), 1)
       /\ last' = Ran("installKiteRelease.catch", NoQuery, "", err, x, NoNotification)
  /\ oracle' = Rejected
  /\ UNCHANGED activePath

LoopLaunchReject ==
  /\ MayReject
  /\ \E x \in Pending("launch"), err \in Errs :
       /\ Commit(launchFailed(Settled(W, x), x, err))
       /\ last' = Ran("runKite.catch", NoQuery, "", err, x, NoNotification)
  /\ oracle' = Rejected
  /\ UNCHANGED activePath

\* the timer of launch() runs its callback: by now the daemon is reachable
LoopTimerFire ==
  /\ \E x \in requests :
       /\ timerDue(x)
       /\ Commit(launchSettled(Settled(W, x), x))
       /\ last' = Ran("setTimeout", NoQuery, "", NoErr, x, NoNotification)
  /\ oracle' = Advanced("INSTALLED", "REACHABLE")
  /\ UNCHANGED activePath

LoopAuthenticateResolve ==
  /\ \E x \in Pending("authenticate") :
       /\ Commit(authenticateSucceeded(Settled(W, x), x))
       /\ last' = Ran("authenticateUser.then", NoQuery, "", NoErr, x, NoNotification)
  /\ oracle' = Advanced("REACHABLE", "AUTHENTICATED")
  /\ UNCHANGED activePath

LoopAuthenticateReject ==
  /\ MayReject
  /\ \E x \in Pending("authenticate"), err \in Errs :
       /\ Commit(authenticateFailed(Settled(W, x), x, err))
       /\ last' = Ran("authenticateUser.catch", NoQuery, "", err, x, NoNotification)
  /\ oracle' = Rejected
  /\ UNCHANGED activePath

LoopWhitelistResolve ==
  /\ \E x \in Pending("whitelist") :
       /\ Commit(whitelistSucceeded(Settled(W, x), x))
       /\ last' = Ran("whitelistPath.then", NoQuery, "", NoErr, x, NoNotification)
       /\ oracle' = [oracle EXCEPT !.enabled = @ \cup {x.dir}]
  /\ UNCHANGED activePath

LoopWhitelistReject ==
  /\ MayReject
  /\ \E x \in Pending("whitelist"), err \in Errs :
       /\ Commit(whitelistFailed(Settled(W, x), x, err))
       /\ last' = Ran("whitelistPath.catch", NoQuery, "", err, x, NoNotification)
  /\ oracle' = Rejected
  /\ UNCHANGED activePath

LoopNext ==
  \/ LoopFocus
  \/ LoopEnsure
  \/ LoopAnswer
  \/ LoopClick
  \/ LoopInstallResolve
  \/ LoopInstallReject
  \/ LaunchResolve
  \/ LoopLaunchReject
  \/ Tick
  \/ LoopTimerFire
  \/ LoopAuthenticateResolve
  \/ LoopAuthenticateReject
  \/ LoopWhitelistResolve
  \/ LoopWhitelistReject

\* every pending promise is settled and every timer fires; the user may
\* stop clicking
LiveSpec ==
  /\ LoopInit
  /\ [][LoopNext]_vars
  /\ WF_vars(LoopAnswer)
  /\ WF_vars(LoopInstallResolve \/ LoopInstallReject)
  /\ WF_vars(LaunchResolve \/ LoopLaunchReject)
  /\ WF_vars(Tick)
  /\ WF_vars(LoopTimerFire)
  /\ WF_vars(LoopAuthenticateResolve \/ LoopAuthenticateReject)
  /\ WF_vars(LoopWhitelistResolve \/ LoopWhitelistReject)

\* moreover ensure() is called, the user clicks every button offered, and
\* a request that is issued again and again succeeds
ConvergeSpec ==
  /\ LoopInit
  /\ [][LoopNext]_vars
  /\ WF_vars(LoopEnsure)
  /\ WF_vars(LoopAnswer)
  /\ WF_vars(LoopClick)
  /\ WF_vars(LoopInstallResolve)
  /\ WF_vars(LaunchResolve)
  /\ WF_vars(Tick)
  /\ WF_vars(LoopTimerFire)
  /\ WF_vars(LoopAuthenticateResolve)
  /\ WF_vars(LoopWhitelistResolve)

\* ------------------------------------------------------------- the claims

\* the last step was the handleState callback of an ensure() call
Answered == last.op = "handleState.then"

\* the dispatch table of the specification: severity and button per state
TableSeverity(state) ==
  CASE state \in {"UNSUPPORTED", "RUNNING"} -> "error"
    [] state \in {"UNINSTALLED", "INSTALLED", "REACHABLE", "AUTHENTICATED"} -> "warning"
    [] OTHER -> ""

TableButton(state) ==
  CASE state = "UNINSTALLED" -> "Install Kite"
    [] state = "INSTALLED" -> "Start Kite"
    [] state = "REACHABLE" -> "Login"
    [] state = "AUTHENTICATED" -> "Enable Kite for "
    [] OTHER -> ""

\* the last step presented exactly one notification, the one of the table
PresentedTheOne ==
  /\ Cardinality(made.n) = 1
  /\ made.n \subseteq notifications
  /\ \A x \in made.n :
       /\ x.id = ByEnsure(last.query.id)
       /\ x.severity = TableSeverity(last.state)
       /\ x.button = TableButton(last.state)
       /\ last.state = "AUTHENTICATED" => x.dir = dirname(last.query.curpath)

\* C1 as stated: for every state other than WHITELISTED the handleState
\* callback presents exactly one notification, the one of the dispatch table.
C1_AsStated ==
  (Answered /\ last.state # "WHITELISTED") => PresentedTheOne

\* C1 amended: for every state other than WHITELISTED, and other than
\* AUTHENTICATED with a null file path, the handleState callback presents
\* exactly one notification, the one of the dispatch table.
C1_OneNotificationPerState ==
  ( /\ Answered
    /\ last.state # "WHITELISTED"
    /\ ~(last.state = "AUTHENTICATED" /\ last.query.curpath = Null) )
    => PresentedTheOne

C1_Witness ==
  /\ Answered
  /\ last.state = "AUTHENTICATED"
  /\ last.query.curpath # Null
  /\ \E x \in notifications :
       /\ x.id = ByEnsure(last.query.id)
       /\ x.button = "Enable Kite for "
       /\ x.dir = dirname(last.query.curpath)

\* C2: when the oracle returns WHITELISTED the callback presents no
\* notification, issues no remediation request and tracks exactly one
\* event, "kite is ready".
C2_ReadyIsSilent ==
  (Answered /\ last.state = "WHITELISTED") =>
    /\ made.n = {}
    /\ made.r = {}
    /\ tracked = << [name |-> "kite is ready", attr |-> NoAttr] >>

C2_Witness ==
  /\ Answered
  /\ last.state = "WHITELISTED"
  /\ last.query.curpath # Null
  /\ tracked = << [name |-> "kite is ready", attr |-> NoAttr] >>
  /\ notifications # {}

\* C3: when the oracle returns AUTHENTICATED and the file path of the call
\* is null, the callback presents no notification and issues no request,
\* so that nothing of that call can issue a whitelist request; when the
\* path is not null it presents the not-whitelisted warning for that path.
C3_NoPathNoWarning ==
  (Answered /\ last.state = "AUTHENTICATED") =>
    IF last.query.curpath = Null
      THEN /\ made.n = {}
           /\ made.r = {}
           /\ \A x \in notifications : x.id # ByEnsure(last.query.id)
      ELSE /\ Cardinality(made.n) = 1
           /\ \A x \in made.n :
                /\ x.kind = "warnNotWhitelisted"
                /\ x.severity = "warning"
                /\ x.arg = last.query.curpath
                /\ x.dir = dirname(last.query.curpath)

C3_Witness ==
  /\ Answered
  /\ last.state = "AUTHENTICATED"
  /\ last.query.curpath = Null
  /\ activePath # Null
  /\ made.n = {}

\* C4 as stated: every handleState callback, resolved or rejected, tracks
\* exactly one event.
C4_AsStated ==
  last.op \in {"handleState.then", "handleState.catch"} => Len(tracked) = 1

\* C4 amended: every handleState callback, resolved or rejected, tracks
\* exactly one event, except that it tracks none when the state is
\* AUTHENTICATED and the file path of the call is null; it never tracks two.
C4_OneSignalPerCall ==
  last.op \in {"handleState.then", "handleState.catch"} =>
    Len(tracked) =
      IF last.state = "AUTHENTICATED" /\ last.query.curpath = Null THEN 0 ELSE 1

C4_Witness ==
  /\ Answered
  /\ last.state = "AUTHENTICATED"
  /\ last.query.curpath = Null
  /\ tracked = <<>>

\* C5: when handleState rejects, the callback tracks the failure as one
\* event, presents no notification, issues no remediation request and
\* makes no new state query.
C5_QueryFailureIsSilent ==
  last.op = "handleState.catch" =>
    /\ tracked = << [name |-> "handleState failed", attr |-> ErrAttr(last.err)] >>
    /\ made = Nothing
    /\ \A q \in queries : q.id # last.query.id

C5_Witness ==
  /\ last.op = "handleState.catch"
  /\ last.err \in Errs
  /\ Len(tracked) = 1
  /\ last.query \notin queries
  /\ nEnsure < MaxEnsure

\* C6: the success callback of an install request issues the run-daemon
\* request itself, in the same step: no state query is made and no click
\* is needed between the two.
C6_InstallChainsLaunch ==
  last.op = "installKiteRelease.then" =>
    /\ Cardinality(made.r) = 1
    /\ made.r \subseteq requests
    /\ \A x \in made.r :
         /\ x.kind = "launch"
         /\ x.status = "pending"
         /\ x.after = last.request.id
         /\ x.via = NoId
    /\ made.q = {}

C6_Witness ==
  /\ last.op = "installKiteRelease.then"
  /\ \E x \in requests :
       x.kind = "launch" /\ x.after = last.request.id /\ x.status = "pending"

\* C7: the ensure() call caused by a successful run-daemon request is
\* made by the timer callback only, once the settling delay has elapsed:
\* the success callback itself makes no call and starts one timer, and a
\* timer makes one call and is gone, however many launches are in flight.
C7_EnsureAfterSettling ==
  /\ last.op = "runKite.then" =>
       /\ made.q = {}
       /\ made.r = {[last.request EXCEPT !.status = "settling"]}
  /\ (last.request.kind = "launch" /\ made.q # {}) =>
       /\ last.op = "setTimeout"
       /\ last.request.status = "settling"
       /\ last.request.elapsed >= SettleDelay
       /\ \A x \in requests : x.id # last.request.id
       /\ Cardinality(made.q) = 1
       /\ \A q \in made.q : q.by = last.request.id

C7_Witness ==
  /\ last.op = "setTimeout"
  /\ last.request.kind = "launch"
  /\ last.request.elapsed >= SettleDelay
  /\ \E q \in queries : q.by = last.request.id
  /\ \E x \in requests : x.kind = "launch" /\ x.id # last.request.id

\* C8: the success callback of an authenticate or whitelist request calls
\* ensure() itself, in the same step, exactly once, with no timer.
C8_EnsureAtOnce ==
  last.op \in {"authenticateUser.then", "whitelistPath.then"} =>
    /\ made.q = {[id |-> nEnsure, curpath |-> activePath,
                  by |-> last.request.id]}
    /\ made.q \subseteq queries
    /\ made.r = {}
    /\ \A x \in requests : x.id # last.request.id

C8_Witness ==
  /\ last.op = "whitelistPath.then"
  /\ \E q \in queries : q.by = last.request.id /\ q.id = nEnsure

\* the operation whose failure a Retry notification reports
FailedOperation(kind) ==
  CASE kind = "installError" -> "install"
    [] kind = "launchError" -> "launch"
    [] kind = "authError" -> "authenticate"
    [] kind = "whitelistError" -> "whitelist"

\* C9: a click on Retry issues one request of the operation that failed
\* with the parameters of the failed call: every whitelist request, first
\* or retried, carries the directory of the first call of its chain,
\* whatever the active file is, and every authenticate request the same
\* credentials.
C9_RetrySameParameters ==
  /\ \A x \in requests :
       /\ x.kind = "whitelist" => x.dir = x.origin
       /\ x.kind = "authenticate" =>
            x.cred = [email |-> email, password |-> password]
  /\ \A x \in notifications : x.kind = "whitelistError" => x.dir = x.origin
  /\ (last.op = "click" /\ last.notification.button = "Retry") =>
       /\ Cardinality(made.r) = 1
       /\ \A x \in made.r :
            /\ x.status = "pending"
            /\ x.via = last.notification.id
            /\ x.kind = FailedOperation(last.notification.kind)
            /\ x.dir = last.notification.dir

C9_Witness ==
  /\ last.op = "click"
  /\ last.notification.kind = "whitelistError"
  /\ activePath # Null
  /\ dirname(activePath) # last.notification.dir
  /\ \E x \in made.r :
       /\ x.kind = "whitelist"
       /\ x.dir = last.notification.origin

\* C10: a click on the Retry button of an install failure or of a launch
\* failure closes that notification and issues the request again.
C10_RetryDismisses ==
  (last.op = "click" /\ last.notification.kind \in {"installError", "launchError"}) =>
    /\ last.notification \notin notifications
    /\ \E x \in made.r :
         /\ x.via = last.notification.id
         /\ x.kind = FailedOperation(last.notification.kind)

\* the rejection callbacks and the notification each presents
FailureOps ==
  {"installKiteRelease.catch", "runKite.catch", "authenticateUser.catch",
   "whitelistPath.catch"}

FailureKind(op) ==
  CASE op = "installKiteRelease.catch" -> "installError"
    [] op = "runKite.catch" -> "launchError"
    [] op = "authenticateUser.catch" -> "authError"
    [] op = "whitelistPath.catch" -> "whitelistError"

\* the requests the last step issued (a timer it started is not one)
Issued == { x \in made.r : x.status = "pending" }

\* C11: the outcome of a request is handled once: the rejection callback
\* presents exactly one error notification with a Retry button and issues
\* no request and no state query, and the request is gone; a request is
\* only ever issued by a click on a button or, for launch, by the success
\* callback of install: never by a rejection callback or a timer.
C11_FailureOnlyOffersRetry ==
  /\ last.op \in FailureOps =>
       /\ Cardinality(made.n) = 1
       /\ made.n \subseteq notifications
       /\ \A x \in made.n :
            /\ x.id = ByRequest(last.request.id)
            /\ x.kind = FailureKind(last.op)
            /\ x.severity = "error"
            /\ x.button = "Retry"
            /\ x.description = stringify(last.err)
       /\ made.r = {}
       /\ made.q = {}
       /\ \A x \in requests : x.id # last.request.id
  /\ \A x \in Issued :
       \/ last.op = "click" /\ x.via = last.notification.id /\ x.after = 0
       \/ /\ last.op = "installKiteRelease.then"
          /\ x.kind = "launch"
          /\ x.after = last.request.id
          /\ x.via = NoId
  /\ Cardinality(Issued) <= 1

C11_Witness ==
  /\ last.op = "runKite.catch"
  /\ nRequest < MaxRequests
  /\ \E x \in notifications :
       x.id = ByRequest(last.request.id) /\ x.button = "Retry"
  /\ \A x \in requests : x.kind # "launch"

\* C13: no two pending requests come from the button of the notification
\* that one ensure() call showed.
C13_OneRequestPerEnsure ==
  \A x, y \in requests :
    /\ x.status = "pending"
    /\ y.status = "pending"
    /\ x.via = y.via
    /\ x.via[1] = "ensure"
    => x = y

\* the oracle's answers for which ensure() shows a notification
Notifying(state, curpath) ==
  /\ state # "WHITELISTED"
  /\ ~(state = "AUTHENTICATED" /\ curpath = Null)

\* C14: nothing is suppressed or deduplicated: every notifying answer adds
\* one notification to the open ones, whatever is open already, and leaves
\* those open; n calls answered with the same state give n notifications.
C14_NeverSuppressed ==
  [][(last'.op = "handleState.then"
        /\ Notifying(last'.state, last'.query.curpath))
      => \E x \in notifications' :
           /\ x.id = ByEnsure(last'.query.id)
           /\ x \notin notifications
           /\ notifications' = notifications \cup {x}
           /\ Cardinality(notifications') = Cardinality(notifications) + 1]_vars

C14_Witness ==
  /\ Answered
  /\ Cardinality(notifications) = MaxEnsure
  /\ \A x \in notifications :
       x.id[1] = "ensure" /\ x.kind = "warnNotRunning"

\* the lifecycle order of the states, and the state each notification's
\* button remedies
StateRank(state) ==
  CASE state = "UNSUPPORTED" -> 0
    [] state = "UNINSTALLED" -> 1
    [] state = "INSTALLED" -> 2
    [] state = "RUNNING" -> 3
    [] state = "REACHABLE" -> 4
    [] state = "AUTHENTICATED" -> 5
    [] state = "WHITELISTED" -> 6

KindRank(kind) ==
  CASE kind \in {"warnNotSupported"} -> 0
    [] kind \in {"warnNotInstalled", "installError"} -> 1
    [] kind \in {"warnNotRunning", "launchError"} -> 2
    [] kind \in {"warnNotReachable"} -> 3
    [] kind \in {"warnNotAuthenticated", "authError"} -> 4
    [] kind \in {"warnNotWhitelisted", "whitelistError"} -> 5

\* C16 as stated: once a later ensure() call has observed a more advanced
\* state, no warning of an earlier call for an earlier state is open with
\* a button.
C16_AsStated ==
  Answered =>
    \A x \in notifications :
      /\ x.button # ""
      /\ x.id[1] = "ensure"
      /\ x.id[2] < last.query.id
      => KindRank(x.kind) >= StateRank(last.state)

\* C16: a notification is closed only by the user's dismissal or, for the
\* not-installed warning and the install failure, by a click on its own
\* button; no check and no other callback closes one.
C16_ClosedOnlyByUser ==
  [][\A x \in notifications \ notifications' :
       /\ last'.notification = x
       /\ \/ last'.op = "dismiss"
          \/ /\ last'.op = "click"
             /\ x.kind \in {"warnNotInstalled", "installError"}]_vars

C16_Witness ==
  /\ Answered
  /\ last.state = "WHITELISTED"
  /\ \E x \in notifications :
       /\ x.button = "Start Kite"
       /\ x.id[1] = "ensure"
       /\ x.id[2] < last.query.id

\* C18: a not-whitelisted warning is created by the answer AUTHENTICATED to
\* the query of its ensure() call and names the queried path and its parent
\* directory; every enable-directory request is issued by the button of
\* such a warning, or by the Retry button of the failure of such a
\* request, and carries that directory.
C18_EnableDirOfQueriedPath ==
  /\ \A x \in made.n :
       x.kind = "warnNotWhitelisted" =>
         /\ Answered
         /\ last.state = "AUTHENTICATED"
         /\ x.id = ByEnsure(last.query.id)
         /\ x.arg = last.query.curpath
  /\ \A x \in notifications :
       /\ x.kind = "warnNotWhitelisted" =>
            x.arg \in Paths /\ x.dir = dirname(x.arg) /\ x.origin = x.dir
       /\ x.kind = "whitelistError" =>
            x.dir = x.origin /\ \E p \in Paths : x.dir = dirname(p)
  /\ \A x \in requests :
       x.kind = "whitelist" =>
         x.dir = x.origin /\ \E p \in Paths : x.dir = dirname(p)
  /\ \A x \in Issued :
       x.kind = "whitelist" =>
         /\ last.op = "click"
         /\ last.notification.kind \in {"warnNotWhitelisted", "whitelistError"}
         /\ x.dir = last.notification.dir
         /\ x.origin = last.notification.origin

C18_Witness ==
  /\ last.op = "click"
  /\ last.notification.kind = "warnNotWhitelisted"
  /\ activePath # last.notification.arg
  /\ \E x \in Issued :
       x.kind = "whitelist" /\ x.dir = dirname(last.notification.arg)

\* C19: every ensure() call, chained ones included, queries for the path
\* that is active when it is made, so the re-check after whitelist(dir) may
\* concern a file outside dir; the path of a not-whitelisted warning is the
\* path of the query of the same call.
C19_PathReadPerCall ==
  /\ \A q \in made.q : q.curpath = activePath
  /\ \A x \in made.n :
       x.kind = "warnNotWhitelisted" =>
         x.arg = last.query.curpath /\ x.id = ByEnsure(last.query.id)

C19_Witness ==
  /\ last.op = "whitelistPath.then"
  /\ \E q \in made.q :
       /\ q.by = last.request.id
       /\ q.curpath # Null
       /\ dirname(q.curpath) # last.request.dir

InstallOffers == {"warnNotInstalled", "installError"}

\* C17: a click on Install, or on Retry of an install failure, closes the
\* notification and issues one install request, so each such notification
\* issues at most one: the install requests issued so far never outnumber
\* the UNINSTALLED answers plus the install failures so far.
C17_InstallOncePerOffer ==
  /\ unspent >= 0
  /\ (last.op = "click" /\ last.notification.kind \in InstallOffers) =>
       /\ last.notification \notin notifications
       /\ Cardinality(Issued) = 1
       /\ \A x \in Issued :
            x.kind = "install" /\ x.via = last.notification.id
  /\ \A x \in requests :
       x.kind = "install" =>
         /\ \A y \in notifications : y.id # x.via
         /\ \A y \in requests : (y.kind = "install" /\ y.via = x.via) => y = x

C17_Witness ==
  /\ last.op = "click"
  /\ last.notification.kind = "installError"
  /\ unspent = 0
  /\ Pending("install") # {}

\* the ids of the requests of the retry loop
RequestIds == 1 .. (5 + MaxFailures)

SuccessOps ==
  {"installKiteRelease.then", "runKite.then", "authenticateUser.then",
   "whitelistPath.then"}

\* the success callback of request id ran in the last step
Succeeded(ops, id) == last.op \in ops /\ last.request.id = id

\* a state warning is shown by the handleState callback for the state it
\* was just given
WarnsForAnswer ==
  \A x \in made.n :
    x.id[1] = "ensure" =>
      /\ Answered
      /\ x.id = ByEnsure(last.query.id)
      /\ KindRank(x.kind) = StateRank(last.state)

\* C12 as stated: every request that succeeds, install included, is
\* eventually followed by a call that makes a fresh state query.
C12_AsStated ==
  /\ \A id \in RequestIds : Succeeded(SuccessOps, id) ~> (made.q # {})
  /\ []WarnsForAnswer

\* C12: every launch, authenticate or whitelist request that succeeds is
\* eventually followed by the state query of its own ensure() call; the
\* success of install makes no query but issues a launch request; a state
\* warning is only shown for the state just obtained from the oracle.
C12_SuccessThenQuery ==
  /\ \A id \in RequestIds :
       Succeeded(SuccessOps \ {"installKiteRelease.then"}, id)
         ~> (\E q \in made.q : q.by = id)
  /\ [](last.op = "installKiteRelease.then" =>
          /\ made.q = {}
          /\ \E x \in Issued : x.kind = "launch" /\ x.after = last.request.id)
  /\ [](nRequest <= 5 + MaxFailures)
  /\ []WarnsForAnswer

C12_Witness ==
  /\ last.op = "setTimeout"
  /\ last.request.after # 0
  /\ \E q \in made.q : q.by = last.request.id

\* the ready signal was recorded in the last step
ReadyRecorded ==
  \E i \in 1 .. Len(tracked) : tracked[i].name = "kite is ready"

====
